---------------------------- MODULE Spec2Model ----------------------------
(***************************************************************************)
(* Cloud synchronisation of the notes tree (src-tauri/src/lib.rs): the     *)
(* four provider entry points sync_to_s3, sync_to_dropbox,                 *)
(* sync_to_onedrive and sync_to_google_drive, acting on one local root and *)
(* one remote store.                                                       *)
(*                                                                         *)
(* Strings are sequences of tokens: "." and "/" are tokens of their own,   *)
(* so that "starts with '.'", the split into path components and the       *)
(* prefix operations are computed on the text as the code computes them.   *)
(* File contents are token sequences as well.                              *)
(***************************************************************************)
EXTENDS Naturals, Sequences, FiniteSets

\* ------------------------------------------------------------------ bounds
MaxLocal == 2      \* files under the root in the initial state
MaxRemote == 1     \* objects in the remote store in the initial state
MaxTime == 2       \* the current time; timestamps are 1..MaxTime
MaxRuns == 2       \* sync invocations in one behaviour
MaxEnv == 1        \* changes made by the user between runs
MaxFaults == 1     \* requests that fail in one behaviour
MaxTree == 3       \* files under the root when only local commands act on it

\* ------------------------------------------------------------ text helpers
DOT == "."
SEP == "/"
QUOTE == "\""

RECURSIVE TrimStart(_, _)
TrimStart(s, c) == IF s # <<>> /\ Head(s) = c THEN TrimStart(Tail(s), c) ELSE s

RECURSIVE TrimEnd(_, _)
TrimEnd(s, c) ==
    IF s # <<>> /\ s[Len(s)] = c THEN TrimEnd(SubSeq(s, 1, Len(s) - 1), c) ELSE s

\* str::trim_matches
TrimMatches(s, c) == TrimEnd(TrimStart(s, c), c)

StartsWith(s, pre) == Len(s) >= Len(pre) /\ SubSeq(s, 1, Len(pre)) = pre

\* str::strip_prefix(pre).unwrap_or(s)
StripPrefixOr(s, pre) ==
    IF StartsWith(s, pre) THEN SubSeq(s, Len(pre) + 1, Len(s)) ELSE s

\* position of the last "/" of a path, 0 when it has none
LastSep(p) ==
    LET S == {i \in 1..Len(p) : p[i] = SEP}
    IN  IF S = {} THEN 0 ELSE CHOOSE i \in S : \A j \in S : j <= i

\* Path::file_name
FileName(p) == SubSeq(p, LastSep(p) + 1, Len(p))

\* position of the final "." of a file name that is not its first token
LastDot(n) ==
    LET S == {i \in 2..Len(n) : n[i] = DOT}
    IN  IF S = {} THEN 0 ELSE CHOOSE i \in S : \A j \in S : j <= i

\* Path::file_stem, applied to a file name
FileStem(n) == IF LastDot(n) = 0 THEN n ELSE SubSeq(n, 1, LastDot(n) - 1)

\* Path::with_extension
WithExtension(p, ext) ==
    SubSeq(p, 1, LastSep(p)) \o FileStem(FileName(p)) \o <<DOT, ext>>

\* Path::extension, applied to a file name; empty when it has none
Extension(n) == IF LastDot(n) = 0 THEN <<>> ELSE SubSeq(n, LastDot(n) + 1, Len(n))

\* Path::with_file_name
WithFileName(p, name) == SubSeq(p, 1, LastSep(p)) \o name

\* the test of lines 830, 932, 1034 and 1155: only the file name is looked at
IsHiddenName(p) == FileName(p) # <<>> /\ Head(FileName(p)) = DOT

\* WalkDir::max_depth(1): the entry is a direct child of the root
IsTopLevel(p) == LastSep(p) = 0

\* ------------------------------------------------------------ the universe
A_MD == <<"a", ".", "md">>
NOTES_A_MD == <<"notes", "/", "a", ".", "md">>
NOTES_B_MD == <<"notes", "/", "b", ".", "md">>
GIT_CONFIG == <<".", "git", "/", "config">>
DS_STORE == <<".", "DS_Store">>
SYNC_CONFIG_JSON == <<".", "sync_config", ".", "json">>
A_CONFLICT == <<"a", ".", "conflict">>
A_CONFLICT_MD == <<"a", "_conflict", ".", "md">>
NOTES_A_CONFLICT == <<"notes", "/", "a", ".", "conflict">>
A_TXT == <<"a", ".", "txt">>
LOCKED_MD == <<"locked", ".", "md">>

\* the files the process has no permission to read: fs::read and
\* File::open fail on them with an Err
Unreadable == {LOCKED_MD}

\* fs::read(path) returns Ok
CanRead(path) == path \notin Unreadable

\* the time a write carries: the files of the initial state and the recorded
\* last_sync are of time 1, writes made later are of the current time
Now == MaxTime

NoteBytes == {<<"B1">>, <<"B2">>}

\* Option::None of SyncConfig.last_sync ("null" in the document)
NoSync == 0

\* serde_json::to_string_pretty of a SyncConfig
ConfigJson(cfg) ==
    <<"{", "provider", cfg.provider, "enabled", cfg.enabled,
      "credentials", cfg.credentials, "last_sync", cfg.last_sync, "}">>

\* ParseConfig with the field last_sync not read
ParseConfig_without_last_sync(b) ==
    [provider |-> b[3], enabled |-> b[5], credentials |-> b[7], last_sync |-> NoSync]

\* serde_json::from_str::<SyncConfig>
ParseConfig(b) ==
    [provider |-> b[3], enabled |-> b[5], credentials |-> b[7], last_sync |-> b[9]]

Providers == {"s3", "dropbox", "onedrive", "gdrive"}

\* ----------------------------------------------------------------- digests
\* get_file_hash: hex of the SHA-256 of the bytes (64 hex digits)
Sha256Hex(b) == <<"sha256">> \o b

\* the ETag S3 assigns to a plain PutObject: the quoted hex MD5 (32 digits)
S3ETag(b) == <<QUOTE, "md5">> \o b \o <<QUOTE>>

NoTag == <<>>

\* ------------------------------------------------------------------- state
VARIABLES
    provider,     \* the entry point the front end invokes for this root
    files,        \* the local root: relative path -> [bytes, mtime]
    remote,       \* bucket / Azimuth folder: key -> [bytes, etag]
    drive,        \* Google Drive: the files created so far, in order
    folder,       \* Google Drive: the folder named Azimuth exists
    run,          \* the invocations in progress, one record per slot
    last,         \* what the previous invocation returned to its caller
    changed,      \* something outside the runs changed since `last`
    origin,       \* the files the previous root had uploaded, once the root is switched
    invoked,      \* number of invocations so far
    faults,       \* number of requests that failed so far
    envSteps,     \* number of outside changes so far
    reply,        \* the last command that acts on the root only, with its result
    saved         \* the config of the most recent save_sync_config

vars ==
    <<provider, files, remote, drive, folder, run, last, changed, origin, invoked, faults, envSteps,
      reply, saved>>

Slots == 1..2

EmptyMap == [x \in {} |-> <<>>]

\* f with key k bound to v (HashMap::insert, fs::write, PUT of an object)
Put(f, k, v) == [x \in DOMAIN f \cup {k} |-> IF x = k THEN v ELSE f[x]]

\* f without key k (fs::remove_file, deletion of an object)
Drop(f, k) == [x \in DOMAIN f \ {k} |-> f[x]]

IdleRun ==
    [pc |-> "idle", local_files |-> EmptyMap, remote_files |-> EmptyMap,
     todo |-> {}, dtodo |-> {}, files_uploaded |-> 0, files_downloaded |-> 0,
     conflicts |-> <<>>, uploaded |-> {}, downloaded |-> {},
     startFiles |-> EmptyMap, startRemote |-> EmptyMap, startDrive |-> <<>>,
     second |-> FALSE, fresh |-> FALSE, clean |-> TRUE]

\* the Err(String) of a command carries no SyncStatus
NoStatus ==
    [success |-> FALSE, files_uploaded |-> 0, files_downloaded |-> 0, conflicts |-> <<>>,
     some |-> FALSE]

NoLast ==
    [returned |-> FALSE, ok |-> FALSE, clean |-> FALSE, uploaded |-> {}, status |-> NoStatus]
NoOrigin == [set |-> FALSE, files |-> EmptyMap]

\* Option::None of load_sync_config, and no save_sync_config so far
NoConfig == [provider |-> "", enabled |-> "", credentials |-> "", last_sync |-> NoSync]

\* no command on the root has been invoked yet
NoReply ==
    [cmd |-> "", file_path |-> <<>>, resolution |-> "", ok |-> TRUE,
     some |-> FALSE, config |-> NoConfig, before |-> EmptyMap, again |-> FALSE]

\* line 937: the Dropbox path of a relative path
DropboxPath(relative) == <<SEP, "Azimuth", SEP>> \o relative

\* ---------------------------------------------------------- initial states
LocalPaths ==
    {A_MD, NOTES_A_MD, GIT_CONFIG, DS_STORE, SYNC_CONFIG_JSON, A_CONFLICT, LOCKED_MD}
RemoteKeys == {A_MD, NOTES_A_MD, NOTES_B_MD, DS_STORE}

InitConfig(pr) ==
    [provider |-> pr, enabled |-> "true", credentials |-> "cred", last_sync |-> 1]

LocalChoices(pr) ==
    [p \in LocalPaths |->
        IF p \in {A_MD, NOTES_A_MD}
        THEN [bytes : NoteBytes, mtime : {1}]
        ELSE IF p = SYNC_CONFIG_JSON
        THEN {[bytes |-> ConfigJson(InitConfig(pr)), mtime |-> 1]}
        ELSE IF p = A_CONFLICT
        THEN {[bytes |-> <<"B2">>, mtime |-> 1]}
        ELSE {[bytes |-> <<"B1">>, mtime |-> 1]}]

\* the maps with domain S whose value at each key k is in C[k]
RECURSIVE MapsOver(_, _)
MapsOver(S, C) ==
    IF S = {} THEN {EmptyMap}
    ELSE LET k == CHOOSE x \in S : TRUE
         IN  {Put(f, k, v) : f \in MapsOver(S \ {k}, C), v \in C[k]}

LocalInits(pr) ==
    UNION {MapsOver(S, LocalChoices(pr)) :
             S \in {T \in SUBSET LocalPaths : Cardinality(T) <= MaxLocal}}

\* what a listing of objects written by plain PUTs shows
PlainChoices(pr) ==
    [k \in RemoteKeys |->
        IF pr = "s3" THEN {[bytes |-> b, etag |-> S3ETag(b)] : b \in NoteBytes}
        ELSE {[bytes |-> b, etag |-> NoTag] : b \in NoteBytes}]

\* the ETag is a string chosen by the store; the code only compares it, so
\* the one other value that matters is the hex SHA-256 of the object
OpaqueChoices(pr) ==
    [k \in RemoteKeys |->
        PlainChoices(pr)[k] \cup
        {[bytes |-> b, etag |-> <<QUOTE>> \o Sha256Hex(b) \o <<QUOTE>>] : b \in NoteBytes}]

RemoteInits(C) ==
    UNION {MapsOver(S, C) :
             S \in {T \in SUBSET RemoteKeys : Cardinality(T) <= MaxRemote}}

RECURSIVE SeqOfMap(_)
SeqOfMap(f) ==
    IF DOMAIN f = {} THEN <<>>
    ELSE LET k == CHOOSE x \in DOMAIN f : TRUE
         IN  <<[name |-> k, bytes |-> f[k].bytes]>> \o SeqOfMap(Drop(f, k))

InitWith(Prs, opaque) ==
    /\ provider \in Prs
    /\ files \in LocalInits(provider)
    /\ LET R == RemoteInits(IF opaque THEN OpaqueChoices(provider)
                                      ELSE PlainChoices(provider))
       IN  IF provider = "gdrive"
           THEN /\ remote = EmptyMap
                /\ drive \in {SeqOfMap(f) : f \in R}
                /\ folder \in (IF drive = <<>> THEN BOOLEAN ELSE {TRUE})
           ELSE /\ remote \in (IF provider = "dropbox"
                            THEN {[k \in {DropboxPath(p) : p \in DOMAIN f} |->
                                     f[StripPrefixOr(k, DropboxPath(<<>>))]] : f \in R}
                            ELSE R)
                /\ drive = <<>>
                /\ folder = FALSE
    /\ run = [r \in Slots |-> IdleRun]
    /\ last = NoLast
    /\ origin = NoOrigin
    /\ changed = FALSE
    /\ invoked = 0
    /\ faults = 0
    /\ envSteps = 0
    /\ reply = NoReply
    /\ saved = NoConfig

Init == InitWith(Providers, FALSE)

\* ---------------------------------------------------------------- S3 steps
\* ScanLocal with the test of line 830 left out
ScanLocal_with_hidden(fs) ==
    [p \in {q \in DOMAIN fs : CanRead(q)} |->
        [hash |-> Sha256Hex(fs[p].bytes), modified |-> fs[p].mtime]]

\* lines 823-841: the manifest of the local tree; a file whose hash cannot
\* be taken (line 834) gets no record
ScanLocal(fs) ==
    [p \in {q \in DOMAIN fs : ~IsHiddenName(q) /\ CanRead(q)} |->
        [hash |-> Sha256Hex(fs[p].bytes), modified |-> fs[p].mtime]]

\* lines 851-857: key -> ETag without its quotes
ListedObjects(rem) == [k \in DOMAIN rem |-> TrimMatches(rem[k].etag, QUOTE)]

\* should_upload that never creates an object the listing does not show
should_upload_only_existing(local_files, remote_files, path) ==
    path \in DOMAIN remote_files /\ remote_files[path] # local_files[path].hash

\* should_upload with the comparison of line 863 left out
should_upload_only_new(local_files, remote_files, path) ==
    path \notin DOMAIN remote_files

\* lines 861-864
should_upload(local_files, remote_files, path) ==
    IF path \notin DOMAIN remote_files THEN TRUE
    ELSE remote_files[path] # local_files[path].hash

\* should_download that also fetches the keys whose tag differs from the
\* local hash
should_download_mismatched(local_files, remote_files) ==
    {k \in DOMAIN remote_files :
        k \in DOMAIN local_files => remote_files[k] # local_files[k].hash}

\* should_download with the test of line 884 left out
should_download_all(local_files, remote_files) == DOMAIN remote_files

\* line 883-884: the keys the download loop fetches
should_download(local_files, remote_files) ==
    {k \in DOMAIN remote_files : k \notin DOMAIN local_files}

Exclusive == \A r \in Slots : run[r].pc = "idle"

\* the slot a new invocation takes
FreeSlot(r) == run[r].pc = "idle" /\ \A q \in Slots : q < r => run[q].pc # "idle"

\* the state an invocation starts from
Started ==
    [IdleRun EXCEPT !.startFiles = files, !.startRemote = remote, !.startDrive = drive,
                    !.second = last.returned /\ last.ok /\ last.clean /\ ~changed
                               /\ ~origin.set,
                    !.fresh = origin.set /\ ~changed]

\* the outcome res of a request: at most MaxFaults requests fail
Request(res) ==
    /\ res # "ok" => faults < MaxFaults
    /\ faults' = IF res = "ok" THEN faults ELSE faults + 1

Failed(rec) == [rec EXCEPT !.pc = "err", !.clean = FALSE]

\* AdvanceS3 with the download loop left out
AdvanceS3_without_downloads(rec) ==
    IF rec.pc = "upload" /\ rec.todo = {} THEN [rec EXCEPT !.pc = "ok"] ELSE rec

\* loop exits of sync_to_s3: the upload loop runs into the download loop,
\* the download loop into the Ok(..) of line 904
AdvanceS3(rec) ==
    IF rec.pc = "upload" /\ rec.todo = {}
    THEN LET d == should_download(rec.local_files, rec.remote_files)
         IN  IF d = {} THEN [rec EXCEPT !.pc = "ok"]
             ELSE [rec EXCEPT !.pc = "download", !.dtodo = d]
    ELSE IF rec.pc = "download" /\ rec.dtodo = {} THEN [rec EXCEPT !.pc = "ok"]
    ELSE rec

\* an invocation enters a free slot with the state rec
Begin(r, rec) ==
    /\ FreeSlot(r)
    /\ invoked < MaxRuns
    /\ invoked' = invoked + 1
    /\ run' = [run EXCEPT ![r] = rec]
    /\ UNCHANGED <<provider, files, remote, drive, folder, last, changed, origin, faults, envSteps, reply, saved>>

\* sync_to_s3 up to the first await: client set-up and the local scan
S3Scan(r) ==
    /\ provider = "s3"
    /\ Begin(r, [Started EXCEPT !.pc = "list", !.local_files = ScanLocal(files)])

\* list_objects_v2: an error ends the run, a listing starts the upload loop
S3List(r, res) ==
    /\ provider = "s3"
    /\ run[r].pc = "list"
    /\ LET rec == run[r]
           rf == ListedObjects(remote)
       IN  run' = [run EXCEPT ![r] =
                 IF res = "error" THEN Failed(rec)
                 ELSE AdvanceS3([rec EXCEPT
                        !.pc = "upload",
                        !.remote_files = rf,
                        !.todo = {p \in DOMAIN rec.local_files :
                                    should_upload(rec.local_files, rf, p)}])]
    /\ Request(res)
    /\ UNCHANGED <<provider, files, remote, drive, folder, last, changed, origin, invoked, envSteps, reply, saved>>

\* one pass of the upload loop for a path that is to be uploaded
S3Upload(r, path, res) ==
    /\ provider = "s3"
    /\ run[r].pc = "upload"
    /\ path \in run[r].todo
    /\ IF path \in DOMAIN files /\ res = "ok"
       THEN /\ remote' = Put(remote, path, [bytes |-> files[path].bytes,
                                            etag |-> S3ETag(files[path].bytes)])
            /\ run' = [run EXCEPT ![r] =
                         AdvanceS3([@ EXCEPT !.todo = @ \ {path},
                                             !.files_uploaded = @ + 1,
                                             !.uploaded = @ \cup {path}])]
       ELSE /\ run' = [run EXCEPT ![r] = Failed(@)]
            /\ UNCHANGED remote
    /\ Request(res)
    /\ UNCHANGED <<provider, files, drive, folder, last, changed, origin, invoked, envSteps, reply, saved>>

\* one pass of the download loop for a key that has no local record
S3Download(r, key, res) ==
    /\ provider = "s3"
    /\ run[r].pc = "download"
    /\ key \in run[r].dtodo
    /\ IF key \in DOMAIN remote /\ res = "ok"
       THEN /\ files' = Put(files, key, [bytes |-> remote[key].bytes, mtime |-> Now])
            /\ run' = [run EXCEPT ![r] =
                         AdvanceS3([@ EXCEPT !.dtodo = @ \ {key},
                                             !.files_downloaded = @ + 1,
                                             !.downloaded = @ \cup {key}])]
       ELSE /\ run' = [run EXCEPT ![r] = Failed(@)]
            /\ UNCHANGED files
    /\ Request(res)
    /\ UNCHANGED <<provider, remote, drive, folder, last, changed, origin, invoked, envSteps, reply, saved>>

\* ----------------------------------------------------------- Dropbox steps
\* lines 926-934, 1028-1036: the files the walk visits
WalkFiles(fs) == {p \in DOMAIN fs : ~IsHiddenName(p)}

\* line 979-980: the local path of a listed Dropbox entry
DropboxRelative(remote_path) == StripPrefixOr(remote_path, DropboxPath(<<>>))

\* the upload loop of sync_to_dropbox and sync_to_onedrive runs into the
\* listing request
AdvanceWalk(rec) ==
    IF rec.pc = "upload" /\ rec.todo = {} THEN [rec EXCEPT !.pc = "list"] ELSE rec

\* lines 976-1002: the download loop passes the entries whose local path
\* exists (line 982) without a request and runs into the Ok(..) of line 1006
AdvanceDropbox(rec, fs) ==
    LET d == {e \in rec.dtodo : DropboxRelative(e) \notin DOMAIN fs}
    IN  IF d = {} THEN [rec EXCEPT !.pc = "ok", !.dtodo = {}] ELSE [rec EXCEPT !.dtodo = d]

\* lines 1067-1087: the same loop of sync_to_onedrive (line 1072)
AdvanceOneDrive(rec, fs) ==
    LET d == {e \in rec.dtodo : e \notin DOMAIN fs}
    IN  IF d = {} THEN [rec EXCEPT !.pc = "ok", !.dtodo = {}] ELSE [rec EXCEPT !.dtodo = d]

\* sync_to_dropbox is invoked: the walk of the root starts
DropboxBegin(r) ==
    /\ provider = "dropbox"
    /\ Begin(r, AdvanceWalk([Started EXCEPT !.pc = "upload", !.todo = WalkFiles(files)]))

\* lines 936-957: one file of the walk is read and posted to files/upload;
\* the `?` of line 939 ends the run when the read fails
DropboxUpload(r, path, res) ==
    /\ provider = "dropbox"
    /\ run[r].pc = "upload"
    /\ path \in run[r].todo
    /\ LET rec == [run[r] EXCEPT !.todo = @ \ {path}]
       IN  IF path \notin DOMAIN files
           THEN res = "ok" /\ run' = [run EXCEPT ![r] = AdvanceWalk(rec)] /\ UNCHANGED remote
           ELSE IF ~CanRead(path)
           THEN res = "ok" /\ run' = [run EXCEPT ![r] = Failed(rec)] /\ UNCHANGED remote
           ELSE IF res = "error"
           THEN run' = [run EXCEPT ![r] = Failed(rec)] /\ UNCHANGED remote
           ELSE IF res = "status"
           THEN /\ run' = [run EXCEPT ![r] = AdvanceWalk([rec EXCEPT !.clean = FALSE])]
                /\ UNCHANGED remote
           ELSE /\ remote' = Put(remote, DropboxPath(path),
                                  [bytes |-> files[path].bytes, etag |-> NoTag])
                /\ run' = [run EXCEPT ![r] =
                             AdvanceWalk([rec EXCEPT !.files_uploaded = @ + 1,
                                                     !.uploaded = @ \cup {path}])]
    /\ Request(res)
    /\ UNCHANGED <<provider, files, drive, folder, last, changed, origin, invoked, envSteps, reply, saved>>

\* lines 961-975: files/list_folder of /Azimuth, recursive
DropboxList(r, res) ==
    /\ provider = "dropbox"
    /\ run[r].pc = "list"
    /\ LET rec == run[r]
       IN  run' = [run EXCEPT ![r] =
                 IF res = "error" THEN Failed(rec)
                 ELSE IF res = "status" THEN [rec EXCEPT !.pc = "ok", !.clean = FALSE]
                 ELSE AdvanceDropbox([rec EXCEPT !.pc = "download",
                                                 !.remote_files = [k \in DOMAIN remote |-> NoTag],
                                                 !.dtodo = DOMAIN remote], files)]
    /\ Request(res)
    /\ UNCHANGED <<provider, files, remote, drive, folder, last, changed, origin, invoked, envSteps, reply, saved>>

\* lines 976-1002: one entry of the listing
DropboxDownload(r, remote_path, res) ==
    /\ provider = "dropbox"
    /\ run[r].pc = "download"
    /\ remote_path \in run[r].dtodo
    /\ LET rec == [run[r] EXCEPT !.dtodo = @ \ {remote_path}]
           relative == DropboxRelative(remote_path)
       IN  IF relative \in DOMAIN files
           THEN /\ res = "ok"
                /\ run' = [run EXCEPT ![r] = AdvanceDropbox(rec, files)]
                /\ UNCHANGED files
           ELSE IF res = "error"
           THEN run' = [run EXCEPT ![r] = Failed(rec)] /\ UNCHANGED files
           ELSE IF res = "status" \/ remote_path \notin DOMAIN remote
           THEN /\ run' = [run EXCEPT ![r] = AdvanceDropbox([rec EXCEPT !.clean = FALSE], files)]
                /\ UNCHANGED files
           ELSE /\ files' = Put(files, relative,
                                 [bytes |-> remote[remote_path].bytes, mtime |-> Now])
                /\ run' = [run EXCEPT ![r] =
                             AdvanceDropbox([rec EXCEPT !.files_downloaded = @ + 1,
                                                        !.downloaded = @ \cup {relative}],
                                            files')]
    /\ Request(res)
    /\ UNCHANGED <<provider, remote, drive, folder, last, changed, origin, invoked, envSteps, reply, saved>>

\* ---------------------------------------------------------- OneDrive steps
\* sync_to_onedrive is invoked: the walk of the root starts
OneDriveBegin(r) ==
    /\ provider = "onedrive"
    /\ Begin(r, AdvanceWalk([Started EXCEPT !.pc = "upload", !.todo = WalkFiles(files)]))

\* lines 1038-1053: one file of the walk is read and PUT to
\* /drive/root:/Azimuth/<relative>:/content
OneDriveUpload(r, path, res) ==
    /\ provider = "onedrive"
    /\ run[r].pc = "upload"
    /\ path \in run[r].todo
    /\ LET rec == [run[r] EXCEPT !.todo = @ \ {path}]
       IN  IF path \notin DOMAIN files
           THEN res = "ok" /\ run' = [run EXCEPT ![r] = AdvanceWalk(rec)] /\ UNCHANGED remote
           ELSE IF ~CanRead(path)
           THEN res = "ok" /\ run' = [run EXCEPT ![r] = Failed(rec)] /\ UNCHANGED remote
           ELSE IF res = "error"
           THEN run' = [run EXCEPT ![r] = Failed(rec)] /\ UNCHANGED remote
           ELSE IF res = "status"
           THEN /\ run' = [run EXCEPT ![r] = AdvanceWalk([rec EXCEPT !.clean = FALSE])]
                /\ UNCHANGED remote
           ELSE /\ remote' = Put(remote, path, [bytes |-> files[path].bytes, etag |-> NoTag])
                /\ run' = [run EXCEPT ![r] =
                             AdvanceWalk([rec EXCEPT !.files_uploaded = @ + 1,
                                                     !.uploaded = @ \cup {path}])]
    /\ Request(res)
    /\ UNCHANGED <<provider, files, drive, folder, last, changed, origin, invoked, envSteps, reply, saved>>

\* lines 1057-1068: the children of /Azimuth that are files
OneDriveList(r, res) ==
    /\ provider = "onedrive"
    /\ run[r].pc = "list"
    /\ LET rec == run[r]
           items == {k \in DOMAIN remote : IsTopLevel(k)}
       IN  run' = [run EXCEPT ![r] =
                 IF res = "error" THEN Failed(rec)
                 ELSE IF res = "status" THEN [rec EXCEPT !.pc = "ok", !.clean = FALSE]
                 ELSE AdvanceOneDrive([rec EXCEPT !.pc = "download",
                                                  !.remote_files = [k \in items |-> NoTag],
                                                  !.dtodo = items], files)]
    /\ Request(res)
    /\ UNCHANGED <<provider, files, remote, drive, folder, last, changed, origin, invoked, envSteps, reply, saved>>

\* lines 1069-1086: one item of the listing
OneDriveDownload(r, name, res) ==
    /\ provider = "onedrive"
    /\ run[r].pc = "download"
    /\ name \in run[r].dtodo
    /\ LET rec == [run[r] EXCEPT !.dtodo = @ \ {name}]
       IN  IF name \in DOMAIN files
           THEN /\ res = "ok"
                /\ run' = [run EXCEPT ![r] = AdvanceOneDrive(rec, files)]
                /\ UNCHANGED files
           ELSE IF res = "error"
           THEN run' = [run EXCEPT ![r] = Failed(rec)] /\ UNCHANGED files
           ELSE IF res = "status" \/ name \notin DOMAIN remote
           THEN /\ run' = [run EXCEPT ![r] = AdvanceOneDrive([rec EXCEPT !.clean = FALSE], files)]
                /\ UNCHANGED files
           ELSE /\ files' = Put(files, name, [bytes |-> remote[name].bytes, mtime |-> Now])
                /\ run' = [run EXCEPT ![r] =
                             AdvanceOneDrive([rec EXCEPT !.files_downloaded = @ + 1,
                                                         !.downloaded = @ \cup {name}],
                                             files')]
    /\ Request(res)
    /\ UNCHANGED <<provider, remote, drive, folder, last, changed, origin, invoked, envSteps, reply, saved>>

\* ------------------------------------------------------ Google Drive steps
\* TopLevelFiles with a walk of unlimited depth
TopLevelFiles_any_depth(fs) == {p \in DOMAIN fs : ~IsHiddenName(p)}

\* lines 1148-1157: the files the depth-1 walk visits
TopLevelFiles(fs) == {p \in DOMAIN fs : IsTopLevel(p) /\ ~IsHiddenName(p)}

\* the upload loop of sync_to_google_drive runs into the Ok(..) of line 1182
AdvanceDrive(rec) ==
    IF rec.pc = "upload" /\ rec.todo = {} THEN [rec EXCEPT !.pc = "ok"] ELSE rec

\* sync_to_google_drive is invoked: the search for the folder is sent
GoogleDriveBegin(r) ==
    /\ provider = "gdrive"
    /\ Begin(r, [Started EXCEPT !.pc = "folder"])

\* lines 1113-1145: find the folder named Azimuth or create it
GoogleDriveFolder(r, res) ==
    /\ provider = "gdrive"
    /\ run[r].pc = "folder"
    /\ IF res = "error"
       THEN run' = [run EXCEPT ![r] = Failed(@)] /\ UNCHANGED folder
       ELSE /\ folder' = TRUE
            /\ run' = [run EXCEPT ![r] =
                         AdvanceDrive([@ EXCEPT !.pc = "upload",
                                                !.todo = TopLevelFiles(files)])]
    /\ Request(res)
    /\ UNCHANGED <<provider, files, remote, drive, last, changed, origin, invoked, envSteps, reply, saved>>

\* lines 1159-1179: one file is read and posted; every POST creates a file
GoogleDriveUpload(r, path, res) ==
    /\ provider = "gdrive"
    /\ run[r].pc = "upload"
    /\ path \in run[r].todo
    /\ LET rec == [run[r] EXCEPT !.todo = @ \ {path}]
       IN  IF path \notin DOMAIN files
           THEN res = "ok" /\ run' = [run EXCEPT ![r] = AdvanceDrive(rec)] /\ UNCHANGED drive
           ELSE IF ~CanRead(path)
           THEN res = "ok" /\ run' = [run EXCEPT ![r] = Failed(rec)] /\ UNCHANGED drive
           ELSE IF res = "error"
           THEN run' = [run EXCEPT ![r] = Failed(rec)] /\ UNCHANGED drive
           ELSE IF res = "status"
           THEN /\ run' = [run EXCEPT ![r] = AdvanceDrive([rec EXCEPT !.clean = FALSE])]
                /\ UNCHANGED drive
           ELSE /\ drive' = Append(drive, [name |-> FileName(path),
                                           bytes |-> files[path].bytes])
                /\ run' = [run EXCEPT ![r] =
                             AdvanceDrive([rec EXCEPT !.files_uploaded = @ + 1,
                                                      !.uploaded = @ \cup {path}])]
    /\ Request(res)
    /\ UNCHANGED <<provider, files, remote, folder, last, changed, origin, invoked, envSteps, reply, saved>>

\* SyncResult with the counters handed out on the error path as well
SyncResult_with_progress(rec) ==
    [ok |-> rec.pc = "ok",
     status |-> [success |-> TRUE, files_uploaded |-> rec.files_uploaded,
                 files_downloaded |-> rec.files_downloaded,
                 conflicts |-> rec.conflicts, some |-> TRUE]]

\* lines 904-910 and every `?` of the run: Ok(SyncStatus {..}) with the
\* counters, or Err(String) without them
SyncResult(rec) ==
    IF rec.pc = "ok"
    THEN [ok |-> TRUE,
          status |-> [success |-> TRUE, files_uploaded |-> rec.files_uploaded,
                      files_downloaded |-> rec.files_downloaded,
                      conflicts |-> rec.conflicts, some |-> TRUE]]
    ELSE [ok |-> FALSE, status |-> NoStatus]

\* the Result reaches the caller: Ok(SyncStatus) or Err(String)
Return(r) ==
    /\ run[r].pc \in {"ok", "err"}
    /\ last' = [returned |-> TRUE, ok |-> SyncResult(run[r]).ok, clean |-> run[r].clean,
                uploaded |-> run[r].uploaded, status |-> SyncResult(run[r]).status]
    /\ changed' = FALSE
    /\ run' = [run EXCEPT ![r] = IdleRun]
    /\ UNCHANGED <<provider, files, remote, drive, folder, origin, invoked, faults, envSteps, reply, saved>>

\* ------------------------------------------------- the user, between runs
\* save_note
save_note(path, content) ==
    /\ Exclusive
    /\ envSteps < MaxEnv
    /\ path \in DOMAIN files => files[path].bytes # content
    /\ files' = Put(files, path, [bytes |-> content, mtime |-> Now])
    /\ changed' = TRUE
    /\ envSteps' = envSteps + 1
    /\ UNCHANGED <<provider, remote, drive, folder, run, last, origin, invoked, faults, reply, saved>>

\* the directory delete_note removes with the note: <dir>/<stem>/
AttachmentsDir(path) ==
    SubSeq(path, 1, LastSep(path)) \o FileStem(FileName(path)) \o <<SEP>>

\* delete_note
delete_note(path) ==
    /\ Exclusive
    /\ envSteps < MaxEnv
    /\ path \in DOMAIN files
    /\ files' = [q \in {x \in DOMAIN files :
                            x # path /\ ~StartsWith(x, AttachmentsDir(path))} |-> files[q]]
    /\ changed' = TRUE
    /\ envSteps' = envSteps + 1
    /\ UNCHANGED <<provider, remote, drive, folder, run, last, origin, invoked, faults, reply, saved>>

\* set_notes_dir to a directory that does not exist yet, which get_notes_dir
\* creates: the next runs work on an empty root against the same remote
set_notes_dir ==
    /\ Exclusive
    /\ ~origin.set
    /\ last.returned /\ last.ok /\ last.clean /\ ~changed
    /\ origin' = [set |-> TRUE,
                  files |-> [p \in last.uploaded \cap DOMAIN files |-> files[p].bytes]]
    /\ files' = EmptyMap
    /\ UNCHANGED <<provider, remote, drive, folder, run, last, changed, invoked, faults, envSteps, reply, saved>>

Outcomes == {"ok", "error"}
HttpOutcomes == {"ok", "status", "error"}

RemotePaths == RemoteKeys \cup {DropboxPath(k) : k \in RemoteKeys \cup LocalPaths}

\* the steps of the run in slot r after its invocation
Step(r) ==
    \/ \E res \in Outcomes : S3List(r, res)
    \/ \E path \in LocalPaths, res \in Outcomes : S3Upload(r, path, res)
    \/ \E key \in RemoteKeys, res \in Outcomes : S3Download(r, key, res)
    \/ \E path \in LocalPaths \cup RemoteKeys, res \in HttpOutcomes : DropboxUpload(r, path, res)
    \/ \E res \in HttpOutcomes : DropboxList(r, res)
    \/ \E remote_path \in RemotePaths, res \in HttpOutcomes : DropboxDownload(r, remote_path, res)
    \/ \E path \in LocalPaths \cup RemoteKeys, res \in HttpOutcomes : OneDriveUpload(r, path, res)
    \/ \E res \in HttpOutcomes : OneDriveList(r, res)
    \/ \E name \in RemoteKeys \cup LocalPaths, res \in HttpOutcomes : OneDriveDownload(r, name, res)
    \/ \E res \in Outcomes : GoogleDriveFolder(r, res)
    \/ \E path \in LocalPaths \cup RemoteKeys, res \in HttpOutcomes : GoogleDriveUpload(r, path, res)
    \/ Return(r)

\* one of the four entry points is invoked
Invoke(r) ==
    \/ S3Scan(r)
    \/ DropboxBegin(r)
    \/ OneDriveBegin(r)
    \/ GoogleDriveBegin(r)

User ==
    \/ \E path \in {A_MD, NOTES_A_MD}, content \in NoteBytes : save_note(path, content)
    \/ \E path \in LocalPaths \cup RemoteKeys : delete_note(path)
    \/ set_notes_dir

\* the front end waits for the result of a sync before it invokes the next
Next ==
    \/ \E r \in Slots : Exclusive /\ Invoke(r)
    \/ \E r \in Slots : Step(r)
    \/ User

Spec == Init /\ [][Next]_vars

\* runs of sync_to_s3, one after the other, against a store whose ETags are
\* arbitrary strings
NextS3 ==
    \/ \E r \in Slots : Exclusive /\ S3Scan(r)
    \/ \E r \in Slots, res \in Outcomes : S3List(r, res)
    \/ \E r \in Slots, path \in LocalPaths, res \in Outcomes : S3Upload(r, path, res)
    \/ \E r \in Slots, key \in RemoteKeys, res \in Outcomes : S3Download(r, key, res)
    \/ \E r \in Slots : Return(r)

InitS3 == InitWith({"s3"}, TRUE)

SpecS3 == InitS3 /\ [][NextS3]_vars

\* two invocations of sync_to_s3 may be in progress at once: nothing in the
\* command or in run() (lines 1326-1365) serialises them
NextConc ==
    \/ \E r \in Slots : S3Scan(r)
    \/ \E r \in Slots, res \in Outcomes : S3List(r, res)
    \/ \E r \in Slots, path \in LocalPaths, res \in Outcomes : S3Upload(r, path, res)
    \/ \E r \in Slots, key \in RemoteKeys, res \in Outcomes : S3Download(r, key, res)
    \/ \E r \in Slots : Return(r)

InitConc == InitWith({"s3"}, FALSE)

SpecConc == InitConc /\ [][NextConc]_vars

\* two invocations of sync_to_s3 that may be in progress at once, up to
\* their Ok(..); all their requests succeed
NextPair ==
    \/ \E r \in Slots : S3Scan(r)
    \/ \E r \in Slots : S3List(r, "ok")
    \/ \E r \in Slots, path \in LocalPaths : S3Upload(r, path, "ok")
    \/ \E r \in Slots, key \in RemoteKeys : S3Download(r, key, "ok")

InitPair == InitWith({"s3"}, FALSE)

SpecPair == InitPair /\ [][NextPair]_vars

\* runs of sync_to_google_drive, one after the other, and notes deleted
\* between them
NextDrive ==
    \/ \E r \in Slots : Exclusive /\ GoogleDriveBegin(r)
    \/ \E r \in Slots, res \in Outcomes : GoogleDriveFolder(r, res)
    \/ \E r \in Slots, path \in LocalPaths, res \in HttpOutcomes :
          GoogleDriveUpload(r, path, res)
    \/ \E r \in Slots : Return(r)
    \/ \E path \in LocalPaths : delete_note(path)

InitDrive == InitWith({"gdrive"}, FALSE)

SpecDrive == InitDrive /\ [][NextDrive]_vars

\* another client of the bucket deletes an object between two runs
delete_object(key) ==
    /\ Exclusive
    /\ envSteps < MaxEnv
    /\ key \in DOMAIN remote
    /\ remote' = Drop(remote, key)
    /\ changed' = TRUE
    /\ envSteps' = envSteps + 1
    /\ UNCHANGED <<provider, files, drive, folder, run, last, origin, invoked, faults,
                   reply, saved>>

\* the previous run succeeded and left path with the same bytes on both sides
Synced(path) ==
    /\ last.returned /\ last.ok /\ ~changed
    /\ path \in DOMAIN files /\ path \in DOMAIN remote
    /\ files[path].bytes = remote[path].bytes

\* runs of sync_to_s3 with the deletion of a synced file on one side
NextDeletion ==
    \/ \E r \in Slots : Exclusive /\ S3Scan(r)
    \/ \E r \in Slots, res \in Outcomes : S3List(r, res)
    \/ \E r \in Slots, path \in LocalPaths, res \in Outcomes : S3Upload(r, path, res)
    \/ \E r \in Slots, key \in RemoteKeys, res \in Outcomes : S3Download(r, key, res)
    \/ \E r \in Slots : Return(r)
    \/ \E path \in LocalPaths \cup RemoteKeys : Synced(path) /\ delete_note(path)
    \/ \E key \in LocalPaths \cup RemoteKeys : Synced(key) /\ delete_object(key)

InitDeletion == InitWith({"s3"}, FALSE)

SpecDeletion == InitDeletion /\ [][NextDeletion]_vars

\* ------------------------------------------- commands that act on the root
\* fs::remove_file: fails when there is no such file
RemoveFile(fs, path) ==
    IF path \in DOMAIN fs THEN [ok |-> TRUE, fs |-> Drop(fs, path)]
    ELSE [ok |-> FALSE, fs |-> fs]

\* fs::rename: fails when there is no file at `from`, replaces a file at `to`
RenameFile(fs, from, to) ==
    IF from \notin DOMAIN fs THEN [ok |-> FALSE, fs |-> fs]
    ELSE IF from = to THEN [ok |-> TRUE, fs |-> fs]
    ELSE [ok |-> TRUE, fs |-> Drop(Put(fs, to, fs[from]), from)]

\* Path::exists with every path taken to be there
Exists_always(fs, path) == TRUE

\* Path::exists
Exists(fs, path) == path \in DOMAIN fs

\* line 1194
conflict_path(file_path) == WithExtension(file_path, "conflict")

\* new_path with the original extension dropped
new_path_without_ext(file_path) ==
    WithFileName(file_path, FileStem(FileName(file_path)) \o <<"_conflict">>)

\* lines 1208-1211: <stem>_conflict.<ext> beside the file
new_path(file_path) ==
    WithFileName(file_path,
                 FileStem(FileName(file_path)) \o <<"_conflict", DOT>>
                     \o Extension(FileName(file_path)))

\* keep_local that removes the file instead of its sidecar
keep_local_removes_file(fs, file_path) ==
    IF Exists(fs, conflict_path(file_path)) THEN RemoveFile(fs, file_path)
    ELSE [ok |-> TRUE, fs |-> fs]

\* lines 1197-1201
keep_local(fs, file_path) ==
    IF Exists(fs, conflict_path(file_path)) THEN RemoveFile(fs, conflict_path(file_path))
    ELSE [ok |-> TRUE, fs |-> fs]

\* keep_remote that copies the sidecar and leaves it behind
keep_remote_copies(fs, file_path) ==
    IF Exists(fs, conflict_path(file_path))
    THEN [ok |-> TRUE, fs |-> Put(fs, file_path, fs[conflict_path(file_path)])]
    ELSE [ok |-> TRUE, fs |-> fs]

\* lines 1202-1206
keep_remote(fs, file_path) ==
    IF Exists(fs, conflict_path(file_path))
    THEN RenameFile(fs, conflict_path(file_path), file_path)
    ELSE [ok |-> TRUE, fs |-> fs]

\* lines 1207-1215
keep_both(fs, file_path) ==
    IF Exists(fs, conflict_path(file_path))
    THEN RenameFile(fs, conflict_path(file_path), new_path(file_path))
    ELSE [ok |-> TRUE, fs |-> fs]

\* the match of line 1196 with its last arm taken for keep_local
Resolve_lenient(fs, file_path, resolution) ==
    IF resolution = "keep_remote" THEN keep_remote(fs, file_path)
    ELSE IF resolution = "keep_both" THEN keep_both(fs, file_path)
    ELSE keep_local(fs, file_path)

\* lines 1196-1219: the match on the resolution string
Resolve(fs, file_path, resolution) ==
    IF resolution = "keep_local" THEN keep_local(fs, file_path)
    ELSE IF resolution = "keep_remote" THEN keep_remote(fs, file_path)
    ELSE IF resolution = "keep_both" THEN keep_both(fs, file_path)
    ELSE [ok |-> FALSE, fs |-> fs]

\* resolve_conflict
resolve_conflict(file_path, resolution) ==
    /\ files' = Resolve(files, file_path, resolution).fs
    /\ reply' = [NoReply EXCEPT !.cmd = "resolve_conflict",
                                !.file_path = file_path,
                                !.resolution = resolution,
                                !.ok = Resolve(files, file_path, resolution).ok,
                                !.before = files,
                                \* the call before this one resolved the same path
                                !.again = /\ reply.cmd = "resolve_conflict"
                                          /\ reply.file_path = file_path
                                          /\ reply.ok
                                          /\ reply.before # files]
    /\ UNCHANGED <<provider, remote, drive, folder, run, last, changed, origin, invoked,
                   faults, envSteps, saved>>

\* save_sync_config
save_sync_config(config) ==
    /\ files' = Put(files, SYNC_CONFIG_JSON, [bytes |-> ConfigJson(config), mtime |-> Now])
    /\ saved' = config
    /\ reply' = [NoReply EXCEPT !.cmd = "save_sync_config",
                                \* this save replaces a different saved config
                                !.again = saved # NoConfig /\ saved # config]
    /\ UNCHANGED <<provider, remote, drive, folder, run, last, changed, origin, invoked,
                   faults, envSteps>>

\* serde_json::from_str::<SyncConfig> succeeds on this content
IsConfigJson(b) ==
    /\ Len(b) = 10
    /\ <<b[1], b[2], b[4], b[6], b[8], b[10]>>
           = <<"{", "provider", "enabled", "credentials", "last_sync", "}">>

\* load_sync_config: Ok(None), Ok(Some(config)) or Err
LoadResult(fs) ==
    IF ~Exists(fs, SYNC_CONFIG_JSON)
    THEN [ok |-> TRUE, some |-> FALSE, config |-> NoConfig]
    ELSE IF IsConfigJson(fs[SYNC_CONFIG_JSON].bytes)
    THEN [ok |-> TRUE, some |-> TRUE, config |-> ParseConfig(fs[SYNC_CONFIG_JSON].bytes)]
    ELSE [ok |-> FALSE, some |-> FALSE, config |-> NoConfig]

\* load_sync_config
load_sync_config ==
    /\ reply' = [NoReply EXCEPT !.cmd = "load_sync_config",
                                !.ok = LoadResult(files).ok,
                                !.some = LoadResult(files).some,
                                !.config = LoadResult(files).config,
                                !.again = reply.again]
    /\ UNCHANGED <<provider, files, remote, drive, folder, run, last, changed, origin,
                   invoked, faults, envSteps, saved>>

\* the root as the local commands see it: notes, sidecars and resolved copies
TreePaths == {A_MD, A_TXT, A_CONFLICT, A_CONFLICT_MD, NOTES_A_MD, NOTES_A_CONFLICT}

TreeChoices == [p \in TreePaths |-> [bytes : NoteBytes, mtime : {1}]]

Resolutions == {"keep_local", "keep_remote", "keep_both", "keep_mine"}

Configs ==
    [provider : {"s3", "dropbox"}, enabled : {"true", "false"},
     credentials : {"cred", "cred2"}, last_sync : {NoSync, 1}]

\* a root without .sync_config.json, no run in progress
InitLocal ==
    /\ provider = "s3"
    /\ files \in UNION {MapsOver(S, TreeChoices) :
                           S \in {T \in SUBSET TreePaths : Cardinality(T) <= MaxTree}}
    /\ remote = EmptyMap
    /\ drive = <<>>
    /\ folder = FALSE
    /\ run = [r \in Slots |-> IdleRun]
    /\ last = NoLast
    /\ origin = NoOrigin
    /\ changed = FALSE
    /\ invoked = 0
    /\ faults = 0
    /\ envSteps = 0
    /\ reply = NoReply
    /\ saved = NoConfig

\* resolutions of conflicts, one after the other
NextConflict ==
    \E file_path \in TreePaths, resolution \in Resolutions :
        resolve_conflict(file_path, resolution)

SpecConflict == InitLocal /\ [][NextConflict]_vars

\* the settings dialog: saves and loads of the config of one root
NextConfig ==
    \/ \E config \in Configs : save_sync_config(config)
    \/ load_sync_config

SpecConfig == InitLocal /\ [][NextConfig]_vars

\* ------------------------------------------------------------- properties
\* the files a scan of fs tracks: those whose name does not start with "."
\* and whose bytes can be read
Tracked(fs) == {p \in DOMAIN fs : ~IsHiddenName(p) /\ CanRead(p)}

\* some component of the path, directory or file name, starts with "."
HasHiddenComponent(p) ==
    \/ p # <<>> /\ p[1] = DOT
    \/ \E i \in 1..(Len(p) - 1) : p[i] = SEP /\ p[i + 1] = DOT

\* the key under which the provider stores the relative path p
RemoteKeyOf(p) == IF provider = "dropbox" THEN DropboxPath(p) ELSE p

\* the remote store holds the bytes b for the relative path p
RemoteHolds(p, b) ==
    IF provider = "gdrive"
    THEN \E i \in DOMAIN drive : drive[i].name = p /\ drive[i].bytes = b
    ELSE RemoteKeyOf(p) \in DOMAIN remote /\ remote[RemoteKeyOf(p)].bytes = b

\* a run returned Ok and none of its requests failed
Succeeded(r) == run[r].pc = "ok" /\ run[r].clean

\* C1: a run that directly follows a successful run of the same provider on
\* the same root, with no local or remote change in between, reports
\* files_uploaded = 0 and files_downloaded = 0.
C1_SecondRunTransfersNothing ==
    \A r \in Slots :
        Succeeded(r) /\ run[r].second =>
            run[r].files_uploaded = 0 /\ run[r].files_downloaded = 0

\* the tracked files sync_to_s3 has to upload, from the state the run started in
NeedsUpload(rec) ==
    {p \in Tracked(rec.startFiles) :
        \/ p \notin DOMAIN rec.startRemote
        \/ TrimMatches(rec.startRemote[p].etag, QUOTE) # Sha256Hex(rec.startFiles[p].bytes)}

\* C2: in a successful sync_to_s3 run a tracked file is uploaded exactly when
\* the bucket has no object under its relative path or that object's ETag
\* differs from the file's SHA-256, and files_uploaded counts those files.
C2_UploadIffMissingOrTagDiffers ==
    \A r \in Slots :
        provider = "s3" /\ run[r].pc = "ok" =>
            /\ run[r].uploaded = NeedsUpload(run[r])
            /\ run[r].files_uploaded = Cardinality(NeedsUpload(run[r]))

\* a successful run that uploaded one tracked file and left another, whose
\* ETag equals its hash, alone
C2_Witness ==
    \E r \in Slots :
        /\ provider = "s3" /\ run[r].pc = "ok"
        /\ run[r].uploaded # {}
        /\ \E p \in Tracked(run[r].startFiles) :
              p \in DOMAIN run[r].startRemote /\ p \notin run[r].uploaded

\* the objects sync_to_s3 has to download, from the state the run started in
NeedsDownload(rec) == {k \in DOMAIN rec.startRemote : k \notin Tracked(rec.startFiles)}

\* C3: in a successful sync_to_s3 run an object is downloaded exactly when
\* its key has no record in the local manifest; it is written at root/key
\* and files_downloaded counts those objects.
C3_DownloadIffNoLocalRecord ==
    \A r \in Slots :
        provider = "s3" /\ run[r].pc = "ok" =>
            /\ run[r].downloaded = NeedsDownload(run[r])
            /\ run[r].files_downloaded = Cardinality(NeedsDownload(run[r]))
            /\ \A k \in NeedsDownload(run[r]) :
                  k \in DOMAIN files /\ files[k].bytes = run[r].startRemote[k].bytes

\* a successful run that fetched notes/b.md into a root that also holds a
\* tracked file, which it did not fetch
C3_Witness ==
    \E r \in Slots :
        /\ provider = "s3" /\ run[r].pc = "ok"
        /\ NOTES_B_MD \in run[r].downloaded
        /\ NOTES_B_MD \notin DOMAIN run[r].startFiles
        /\ Tracked(run[r].startFiles) # {}

\* C4: two sync runs on the same root and provider are never in progress at
\* the same time.
C4_SingleFlight ==
    Cardinality({r \in Slots : run[r].pc \in {"list", "upload", "download"}}) <= 1

\* SyncConfig.last_sync as persisted beside the root fs, NoSync when there
\* is no .sync_config.json
LastSync(fs) ==
    IF SYNC_CONFIG_JSON \in DOMAIN fs
    THEN ParseConfig(fs[SYNC_CONFIG_JSON].bytes).last_sync
    ELSE NoSync

\* the tracked paths that both sides held, with different content, when the
\* run started
Diverged(rec) ==
    {p \in Tracked(rec.startFiles) :
        /\ RemoteKeyOf(p) \in DOMAIN rec.startRemote
        /\ rec.startRemote[RemoteKeyOf(p)].bytes # rec.startFiles[p].bytes}

Flagged(rec) == {rec.conflicts[i].file_path : i \in DOMAIN rec.conflicts}

\* C5: a path held by both sides with different content is uploaded only
\* when the local modification time is strictly newer than the recorded
\* last sync; otherwise it is reported as a SyncConflict and neither the
\* local file nor the remote object is overwritten.
C5_UploadOnlyWhenNewerElseConflict ==
    \A r \in Slots :
        Succeeded(r) /\ LastSync(run[r].startFiles) # NoSync =>
            \A p \in Diverged(run[r]) :
                \/ run[r].startFiles[p].mtime > LastSync(run[r].startFiles)
                \/ /\ p \notin run[r].uploaded
                   /\ p \in Flagged(run[r])
                   /\ files[p].bytes = run[r].startFiles[p].bytes
                   /\ remote[RemoteKeyOf(p)].bytes = run[r].startRemote[RemoteKeyOf(p)].bytes

\* C6: no scan records, and no run uploads, a file whose relative path has a
\* component starting with ".".
C6_NoHiddenComponentTracked ==
    \A r \in Slots :
        \A p \in DOMAIN run[r].local_files \cup run[r].todo \cup run[r].uploaded :
            ~HasHiddenComponent(p)

\* p is the sidecar <name>.conflict of another file of fs
IsSidecar(p, fs) ==
    \E q \in DOMAIN fs : q # p /\ WithExtension(q, "conflict") = p

\* C7: no run tracks or uploads .sync_config.json or the .conflict sidecar
\* of a pending conflict.
C7_NoMetadataTracked ==
    \A r \in Slots :
        \A p \in DOMAIN run[r].local_files \cup run[r].todo \cup run[r].uploaded :
            p # SYNC_CONFIG_JSON /\ ~IsSidecar(p, run[r].startFiles)

\* C8: for every provider, when the root holds one file and the remote store
\* nothing, a successful run reports files_uploaded = 1, files_downloaded = 0
\* and the remote store then holds the file's content under its path.
C8_LocalOnlyFileIsUploaded ==
    \A r \in Slots :
        Succeeded(r) =>
            \A p \in {A_MD, NOTES_A_MD} :
                /\ DOMAIN run[r].startFiles = {p}
                /\ run[r].startRemote = EmptyMap
                /\ run[r].startDrive = <<>>
                => /\ run[r].files_uploaded = 1
                   /\ run[r].files_downloaded = 0
                   /\ RemoteHolds(p, run[r].startFiles[p].bytes)

\* the one object the remote store held when the run started, as <<path, bytes>>
OnlyRemoteObject(rec) ==
    IF provider = "gdrive"
    THEN {<<rec.startDrive[1].name, rec.startDrive[1].bytes>> : i \in {1} \cap DOMAIN rec.startDrive}
    ELSE {<<k, rec.startRemote[RemoteKeyOf(k)].bytes>> :
            k \in {x \in RemoteKeys : DOMAIN rec.startRemote = {RemoteKeyOf(x)}}}

\* C9: for every provider, when the remote store holds one object and the
\* root nothing, a successful run reports files_downloaded = 1 and the root
\* then holds a file at the object's path with the object's bytes.
C9_RemoteOnlyObjectIsDownloaded ==
    \A r \in Slots :
        Succeeded(r) /\ run[r].startFiles = EmptyMap /\ Len(run[r].startDrive) <= 1 =>
            \A o \in OnlyRemoteObject(run[r]) :
                /\ run[r].files_downloaded = 1
                /\ o[1] \in DOMAIN files
                /\ files[o[1]].bytes = o[2]

\* C10: for every provider, a successful run on an empty root against the
\* store a previous run uploaded to reproduces every uploaded file, byte
\* for byte, at the same relative path.
C10_RoundTrip ==
    \A r \in Slots :
        Succeeded(r) /\ run[r].fresh =>
            \A p \in DOMAIN origin.files :
                p \in DOMAIN files /\ files[p].bytes = origin.files[p]

\* C11: for every provider, uploading the same bytes to the same relative
\* path a second time leaves the remote store exactly as the first upload
\* left it: one object for the path, holding those bytes.
C11_ReuploadLeavesStoreUnchanged ==
    [][\A r \in Slots, p \in LocalPaths :
          /\ run[r].second /\ p \in last.uploaded
          /\ p \notin run[r].uploaded /\ p \in run'[r].uploaded
          => remote' = remote /\ drive' = drive]_vars

\* C12: in every provider's run a failed listing request (transport error or
\* non-2xx response) ends the run with an error.
C12_ListFailureAborts ==
    [][\A r \in Slots :
          run[r].pc = "list" /\ faults' > faults => run'[r].pc = "err"]_vars

\* C13: in every provider's run a failed upload or download of one file
\* (transport error or non-2xx status) ends the run with an error, so that no
\* further transfer is issued.
C13_TransferFailureAborts ==
    [][\A r \in Slots :
          run[r].pc \in {"upload", "download"} /\ faults' > faults
          => run'[r].pc = "err"]_vars

SidecarOf(p) == WithExtension(p, "conflict")

\* name_conflict.ext beside the file name.ext
CopyOf(p) ==
    SubSeq(p, 1, LastSep(p)) \o FileStem(FileName(p)) \o <<"_conflict", DOT>>
        \o Extension(FileName(p))

\* the Pending state of p in fs: p holds the local bytes, its sidecar the
\* remote bytes
Pending(fs, p) == p \in DOMAIN fs /\ SidecarOf(p) \in DOMAIN fs /\ SidecarOf(p) # p

\* the last command was resolve_conflict with this resolution
Resolved(resolution) == reply.cmd = "resolve_conflict" /\ reply.resolution = resolution

\* fs and gs agree on every path outside S
SameOutside(fs, gs, S) ==
    /\ DOMAIN fs \ S = DOMAIN gs \ S
    /\ \A q \in DOMAIN fs \ S : fs[q] = gs[q]

\* C15: from the Pending state of name.ext, resolve_conflict with keep_both
\* ends with name.ext holding its local bytes, name_conflict.ext holding the
\* bytes of the sidecar, and no sidecar; nothing else is touched.
C15_KeepBothLeavesTwoFiles ==
    Resolved("keep_both") /\ Pending(reply.before, reply.file_path) =>
        LET p == reply.file_path
        IN  /\ reply.ok
            /\ p \in DOMAIN files /\ files[p] = reply.before[p]
            /\ CopyOf(p) \in DOMAIN files
            /\ files[CopyOf(p)].bytes = reply.before[SidecarOf(p)].bytes
            /\ SidecarOf(p) \notin DOMAIN files
            /\ SameOutside(files, reply.before, {SidecarOf(p), CopyOf(p)})

\* keep_both has resolved the Pending state of notes/a.md
C15_Witness ==
    /\ Resolved("keep_both") /\ Pending(reply.before, reply.file_path)
    /\ reply.file_path = NOTES_A_MD
    /\ reply.before[NOTES_A_MD].bytes # reply.before[NOTES_A_CONFLICT].bytes

\* C16: from the Pending state, resolve_conflict with keep_remote ends with
\* the file holding the bytes of the sidecar and no sidecar; no other file
\* is created or changed.
C16_KeepRemoteReplacesFile ==
    Resolved("keep_remote") /\ Pending(reply.before, reply.file_path) =>
        LET p == reply.file_path
        IN  /\ reply.ok
            /\ p \in DOMAIN files
            /\ files[p].bytes = reply.before[SidecarOf(p)].bytes
            /\ SidecarOf(p) \notin DOMAIN files
            /\ SameOutside(files, reply.before, {SidecarOf(p), p})

\* keep_remote has resolved a Pending state whose two sides differed
C16_Witness ==
    /\ Resolved("keep_remote") /\ Pending(reply.before, reply.file_path)
    /\ reply.before[reply.file_path].bytes
          # reply.before[SidecarOf(reply.file_path)].bytes
    /\ Cardinality(DOMAIN reply.before) > 2

\* C17: from the Pending state, resolve_conflict with keep_local removes the
\* sidecar and leaves the file, and every other file, as it was.
C17_KeepLocalRemovesSidecar ==
    Resolved("keep_local") /\ Pending(reply.before, reply.file_path) =>
        LET p == reply.file_path
        IN  /\ reply.ok
            /\ SidecarOf(p) \notin DOMAIN files
            /\ p \in DOMAIN files /\ files[p] = reply.before[p]
            /\ SameOutside(files, reply.before, {SidecarOf(p)})

\* keep_local has resolved a Pending state whose two sides differed
C17_Witness ==
    /\ Resolved("keep_local") /\ Pending(reply.before, reply.file_path)
    /\ reply.before[reply.file_path].bytes
          # reply.before[SidecarOf(reply.file_path)].bytes

ValidResolutions == {"keep_local", "keep_remote", "keep_both"}

\* C18: resolve_conflict with any other resolution string returns an error
\* and leaves every file under the root unchanged, whether or not a sidecar
\* exists.
C18_InvalidResolutionChangesNothing ==
    reply.cmd = "resolve_conflict" /\ reply.resolution \notin ValidResolutions =>
        ~reply.ok /\ files = reply.before

\* an unknown resolution string was given for a file in the Pending state
C18_Witness ==
    /\ reply.cmd = "resolve_conflict" /\ reply.resolution \notin ValidResolutions
    /\ Pending(reply.before, reply.file_path)

\* C19: resolve_conflict with a valid resolution on a path whose sidecar does
\* not exist, as in a second invocation after the path was resolved, returns
\* success and changes no file.
C19_NoSidecarNoEffect ==
    /\ reply.cmd = "resolve_conflict" /\ reply.resolution \in ValidResolutions
    /\ SidecarOf(reply.file_path) \notin DOMAIN reply.before
    => reply.ok /\ files = reply.before

\* the second of two invocations on a.md, the first of which resolved it
C19_Witness ==
    /\ reply.cmd = "resolve_conflict" /\ reply.resolution \in ValidResolutions
    /\ SidecarOf(reply.file_path) \notin DOMAIN reply.before
    /\ reply.again /\ reply.file_path = A_MD /\ A_MD \in DOMAIN reply.before

C21_SuccessfulRunRecordsLastSync ==
    \A r \in Slots :
        Succeeded(r) /\ SYNC_CONFIG_JSON \in DOMAIN run[r].startFiles =>
            /\ SYNC_CONFIG_JSON \in DOMAIN files
            /\ files[SYNC_CONFIG_JSON] # run[r].startFiles[SYNC_CONFIG_JSON]

\* the tracked paths both sides held when the run started, with a remote tag
\* that differs from the local hash
Mismatched(rec) ==
    {p \in Tracked(rec.startFiles) :
        /\ p \in DOMAIN rec.startRemote
        /\ TrimMatches(rec.startRemote[p].etag, QUOTE) # Sha256Hex(rec.startFiles[p].bytes)}

\* C22: in sync_to_s3 a path held by both sides with a tag that differs from
\* the local hash is never downloaded, never flagged and never changed
\* locally, and a run that returns Ok has overwritten the object with the
\* local bytes.
C22_MismatchIsUploaded ==
    \A r \in Slots :
        provider = "s3" =>
            \A p \in Mismatched(run[r]) :
                /\ p \notin run[r].downloaded
                /\ p \notin Flagged(run[r])
                /\ p \in DOMAIN files /\ files[p] = run[r].startFiles[p]
                /\ run[r].pc = "ok" =>
                      /\ p \in run[r].uploaded
                      /\ remote[p].bytes = run[r].startFiles[p].bytes

\* a run has returned Ok after it replaced remote bytes that differed from
\* the local ones
C22_Witness ==
    \E r \in Slots :
        /\ provider = "s3" /\ run[r].pc = "ok"
        /\ \E p \in Mismatched(run[r]) :
              /\ run[r].startRemote[p].bytes # run[r].startFiles[p].bytes
              /\ p \in run[r].uploaded

\* C23: in every provider's run the listing comes first, then the upload
\* loop, then the download loop: nothing is uploaded before the listing has
\* returned, nothing is downloaded before the last upload.
C23_ListThenUploadThenDownload ==
    \A r \in Slots :
        /\ run[r].pc = "list" => run[r].uploaded = {}
        /\ run[r].pc = "download" => run[r].todo = {}

\* C24: sync_to_google_drive leaves every file under the root as it is,
\* reports files_downloaded = 0, and uploads only non-hidden files that lie
\* directly in the root.
C24_DriveUploadsTopLevelOnly ==
    \A r \in Slots :
        provider = "gdrive" /\ run[r].pc # "idle" =>
            /\ files = run[r].startFiles
            /\ run[r].files_downloaded = 0 /\ run[r].downloaded = {}
            /\ \A p \in run[r].uploaded \cup run[r].todo :
                  IsTopLevel(p) /\ ~IsHiddenName(p)

\* a run on a root with a file in a subdirectory has returned Ok after it
\* uploaded a file of the top level
C24_Witness ==
    \E r \in Slots :
        /\ provider = "gdrive" /\ run[r].pc = "ok"
        /\ NOTES_A_MD \in DOMAIN run[r].startFiles
        /\ run[r].uploaded # {}

\* C25: in every provider's run a file that cannot be read is left out and
\* the run goes on: a run ends with an error only when a request failed.
C25_UnreadableFileNeverFails ==
    \A r \in Slots : run[r].pc = "err" => faults > 0

\* C26: no run overwrites a file that exists under the root: every path a
\* run has downloaded to held no file, tracked or not, when the run started.
C26_DownloadNeverOverwrites ==
    \A r \in Slots :
        \A k \in run[r].downloaded : k \notin DOMAIN run[r].startFiles

\* C27: when sync_to_s3 returns Ok, every tracked local file is an object
\* under its relative path, every listed key is a local file, and every path
\* the run transferred holds the same bytes on both sides.
C27_BothSidesAgreeAfterRun ==
    \A r \in Slots :
        provider = "s3" /\ run[r].pc = "ok" =>
            /\ Tracked(files) \subseteq DOMAIN remote
            /\ DOMAIN run[r].remote_files \subseteq DOMAIN files
            /\ \A p \in run[r].uploaded \cup run[r].downloaded :
                  files[p].bytes = remote[p].bytes

\* a run that both uploaded and downloaded has returned Ok
C27_Witness ==
    \E r \in Slots :
        /\ provider = "s3" /\ run[r].pc = "ok"
        /\ run[r].uploaded # {} /\ run[r].downloaded # {}

\* C28: no run of sync_to_s3 removes a local file or an object, and a run
\* that returns Ok has restored what one side lacked: an object without a
\* local file is downloaded, a tracked file without an object is uploaded.
C28_DeletionIsNotPropagated ==
    \A r \in Slots :
        provider = "s3" /\ run[r].pc # "idle" =>
            /\ DOMAIN run[r].startFiles \subseteq DOMAIN files
            /\ DOMAIN run[r].startRemote \subseteq DOMAIN remote
            /\ run[r].pc = "ok" =>
                  /\ \A k \in DOMAIN run[r].startRemote \ DOMAIN run[r].startFiles :
                        k \in DOMAIN files /\ files[k].bytes = run[r].startRemote[k].bytes
                  /\ \A p \in Tracked(run[r].startFiles) \ DOMAIN run[r].startRemote :
                        p \in DOMAIN remote /\ remote[p].bytes = run[r].startFiles[p].bytes

\* a file the previous run had uploaded was deleted from the root, and this
\* run has fetched it again
C28_Witness ==
    \E r \in Slots :
        /\ provider = "s3" /\ run[r].pc = "ok"
        /\ last.returned /\ last.ok
        /\ \E p \in last.uploaded :
              p \notin DOMAIN run[r].startFiles /\ p \in run[r].downloaded

\* the paths resolve_conflict may touch for p: the file, its sidecar and,
\* for keep_both, a copy that did not exist before
OwnPaths(p, resolution, before) ==
    {p, SidecarOf(p)} \cup
    (IF resolution = "keep_both" /\ CopyOf(p) \notin DOMAIN before THEN {CopyOf(p)} ELSE {})

\* C29: resolve_conflict for a file changes nothing but that file, its
\* sidecar and a newly created copy: it replaces no file that exists at
\* <stem>_conflict.<ext> and leaves the pending sidecar of every other file
\* in place.
C29_ResolveTouchesOnlyItsOwnFiles ==
    reply.cmd = "resolve_conflict" =>
        /\ SameOutside(files, reply.before,
                       OwnPaths(reply.file_path, reply.resolution, reply.before))
        /\ \A q \in DOMAIN reply.before \ {reply.file_path} :
              Pending(reply.before, q) /\ q # SidecarOf(reply.file_path) =>
                  /\ SidecarOf(q) \in DOMAIN files
                  /\ files[SidecarOf(q)] = reply.before[SidecarOf(q)]

\* C30: every SyncStatus a run returns has success = true and no conflicts,
\* and no run writes a .conflict sidecar under the root.
C30_NoRunCreatesSidecar ==
    /\ last.returned /\ last.ok =>
          last.status.success /\ last.status.conflicts = <<>>
    /\ \A r \in Slots :
          \A k \in run[r].downloaded : Extension(FileName(k)) # <<"conflict">>

\* what one sync_to_s3 invocation that runs alone to Ok makes of the root fs
\* and the bucket rem: mismatched and missing tracked files are put, keys
\* without a tracked file are fetched
SerialRun(fs, rem) ==
    LET up == {p \in Tracked(fs) :
                 \/ p \notin DOMAIN rem
                 \/ TrimMatches(rem[p].etag, QUOTE) # Sha256Hex(fs[p].bytes)}
        down == {k \in DOMAIN rem : k \notin Tracked(fs)}
    IN  [files |-> [p \in DOMAIN fs \cup down |->
                      IF p \in down THEN [bytes |-> rem[p].bytes, mtime |-> Now]
                      ELSE fs[p]],
         remote |-> [k \in DOMAIN rem \cup up |->
                      IF k \in up THEN [bytes |-> fs[k].bytes, etag |-> S3ETag(fs[k].bytes)]
                      ELSE rem[k]]]

\* two invocations, one after the other
SerialRuns(fs, rem) == SerialRun(SerialRun(fs, rem).files, SerialRun(fs, rem).remote)

\* the bytes under each path
Contents(fs) == [p \in DOMAIN fs |-> fs[p].bytes]

\* both invocations have run to Ok, each after a scan and a listing taken
\* before any transfer of either
Interleaved ==
    /\ \A r \in Slots : run[r].pc = "ok"
    /\ run[1].startFiles = run[2].startFiles
    /\ run[1].startRemote = run[2].startRemote
    /\ \A r \in Slots : run[r].remote_files = ListedObjects(run[r].startRemote)

\* C31: when two invocations of sync_to_s3 on one root and bucket interleave,
\* each with its own scan and listing taken before the transfers, the root
\* and the bucket end with the contents that the two invocations leave when
\* one runs after the other; an invocation that runs alone leaves the
\* contents of one such run.
C31_InterleavedRunsEqualSerial ==
    /\ invoked = 1 /\ run[1].pc = "ok" =>
          /\ Contents(files)
                = Contents(SerialRun(run[1].startFiles, run[1].startRemote).files)
          /\ Contents(remote)
                = Contents(SerialRun(run[1].startFiles, run[1].startRemote).remote)
    /\ Interleaved =>
          /\ Contents(files)
                = Contents(SerialRuns(run[1].startFiles, run[1].startRemote).files)
          /\ Contents(remote)
                = Contents(SerialRuns(run[1].startFiles, run[1].startRemote).remote)

\* both invocations uploaded the same file and fetched the same key, which a
\* scan taken after the first fetch would have recorded
C31_Witness ==
    /\ Interleaved
    /\ run[1].uploaded \cap run[2].uploaded # {}
    /\ \E k \in run[1].downloaded \cap run[2].downloaded : ~IsHiddenName(k)

=============================================================================
